---- MODULE Spec2Model ----
(***************************************************************************)
(* Company detection of the POC briefing app: attendees_to_company and its *)
(* helpers base_domain and pretty_from_domain (google_helpers.py), and the *)
(* participant e-mail extractor collect_event_emails (app.py), and the     *)
(* summary cache the app keeps in its session state (app.py).              *)
(*                                                                         *)
(* A Python string is a sequence of one-character strings, so that lower,  *)
(* strip, replace, split, join and the regular expressions of the text     *)
(* stage are computed character by character, the way the code does.       *)
(***************************************************************************)
EXTENDS Integers, Sequences, FiniteSets, TLC

VARIABLES
    pc,                 \* position of the running call
    attendees,          \* attendees_to_company: the attendees argument
    event_summary,      \* attendees_to_company: event_summary (a string or None)
    event_description,  \* attendees_to_company: event_description (a string or None)
    INTERNAL,           \* attendees_to_company: the set INTERNAL
    IGNORE,             \* attendees_to_company: the set IGNORE
    PRIORITY,           \* attendees_to_company: the list PRIORITY
    NAME_MAP,           \* attendees_to_company: the dict NAME_MAP
    domains,            \* attendees_to_company: the local list domains
    external,           \* attendees_to_company: the local list external
    result,             \* the returned dict, or NoResult
    stage,              \* number of the stage (code comments 1..6) that returned
    d_in,               \* base_domain: the argument
    d_once,             \* base_domain(d_in)
    d_twice,            \* base_domain(base_domain(d_in))
    event,              \* collect_event_emails: the argument e
    emails,             \* collect_event_emails: the local list emails
    out,                \* collect_event_emails: the list returned
    first,              \* the arguments and the result of an earlier call, or NoCall
    rows,               \* app: st.session_state["rows"], the rows of the events table
    idx,                \* app: the row index chosen in the number input
    summaries,          \* app: st.session_state["summaries"], event id -> summary text
    current_event_id,   \* app: st.session_state["current_event_id"], or None
    shown,              \* app: the text of the AI Summary text area, or NotShown
    generations         \* app: event id -> number of calls of build_event_summary

vars == <<pc, attendees, event_summary, event_description, INTERNAL,
          IGNORE, PRIORITY, NAME_MAP, domains, external, result, stage,
          d_in, d_once, d_twice, event, emails, out, first,
          rows, idx, summaries, current_event_id, shown, generations>>

\* the variables of a call of attendees_to_company
callVars == <<attendees, event_summary, event_description, INTERNAL,
              IGNORE, PRIORITY, NAME_MAP, domains, external, result, stage>>

\* the variables of the two applications of base_domain
normVars == <<d_in, d_once, d_twice>>

\* the variables of a call of collect_event_emails
emailVars == <<event, emails, out>>

\* the record of an earlier call of attendees_to_company
rerunVars == <<first>>

\* the session state and the widgets of the app
appVars == <<rows, idx, summaries, current_event_id, shown, generations>>

---------------------------------------------------------------------------
(* Bounds of the model *)

MaxDomainLen == 5
MaxAttendees == 3
MaxEventAttendees == 2

\* longest attendees list of a call that is repeated with another text
MaxRerunAttendees == 2

\* most events one press of "Load events" returns
MaxEvents == 2

---------------------------------------------------------------------------
(* Python values *)

\* Python's None; no string of the model holds a character spelled like this
None == <<"<None>">>

\* x or "" for x a string or None
OrEmpty(x) == IF x = None THEN <<>> ELSE x

Uppers == <<"A","B","C","D","E","F","G","H","I","J","K","L","M","N","O","P","Q","R","S","T","U","V","W","X","Y","Z">>
Lowers == <<"a","b","c","d","e","f","g","h","i","j","k","l","m","n","o","p","q","r","s","t","u","v","w","x","y","z">>
Digits == {"0","1","2","3","4","5","6","7","8","9"}

UpperSet == {Uppers[i] : i \in 1..26}
LowerSet == {Lowers[i] : i \in 1..26}

LowerOf == [c \in UpperSet |-> Lowers[CHOOSE i \in 1..26 : Uppers[i] = c]]
UpperOf == [c \in LowerSet |-> Uppers[CHOOSE i \in 1..26 : Lowers[i] = c]]

IsSpace(c) == c \in {" ", "\t", "\n"}

\* str.lower()
lower(s) == [i \in 1..Len(s) |-> IF s[i] \in UpperSet THEN LowerOf[s[i]] ELSE s[i]]

\* str.strip()
strip(s) ==
    LET lo == CHOOSE i \in 1..Len(s) : ~IsSpace(s[i]) /\ \A j \in 1..(i - 1) : IsSpace(s[j])
        hi == CHOOSE i \in 1..Len(s) : ~IsSpace(s[i]) /\ \A j \in (i + 1)..Len(s) : IsSpace(s[j])
    IN IF \A i \in 1..Len(s) : IsSpace(s[i]) THEN <<>> ELSE SubSeq(s, lo, hi)

\* str.replace(c, "")
remove(s, c) == SelectSeq(s, LAMBDA x : x # c)

\* str.startswith(p)
startswith(s, p) == Len(s) >= Len(p) /\ SubSeq(s, 1, Len(p)) = p

\* c in s, for a character c
contains(s, c) == \E i \in 1..Len(s) : s[i] = c

\* position of the first c in s (c occurs in s)
find(s, c) == CHOOSE i \in 1..Len(s) : s[i] = c /\ \A j \in 1..(i - 1) : s[j] # c

\* str.split(c): the pieces between the occurrences of the character c
RECURSIVE split(_, _)
split(s, c) ==
    IF ~contains(s, c) THEN <<s>>
    ELSE LET p == find(s, c)
         IN <<SubSeq(s, 1, p - 1)>> \o split(SubSeq(s, p + 1, Len(s)), c)

\* c.join(parts)
RECURSIVE join(_, _)
join(parts, c) ==
    IF Len(parts) = 0 THEN <<>>
    ELSE IF Len(parts) = 1 THEN parts[1]
    ELSE parts[1] \o <<c>> \o join(Tail(parts), c)

\* str.capitalize(): first character upper-cased, the rest lower-cased
capitalize(s) ==
    IF Len(s) = 0 THEN <<>>
    ELSE <<IF s[1] \in LowerSet THEN UpperOf[s[1]] ELSE s[1]>> \o lower(Tail(s))

Unknown == <<"U", "n", "k", "n", "o", "w", "n">>

\* a variable not assigned yet
NoString == <<"<unset>">>

---------------------------------------------------------------------------
(* base_domain and pretty_from_domain *)

base_domain(d) ==
    LET d1 == remove(strip(lower(OrEmpty(d))), "@")
        d2 == IF startswith(d1, <<"w", "w", "w", ".">>) THEN SubSeq(d1, 5, Len(d1)) ELSE d1
        parts == split(d2, ".")
    IN IF Len(parts) >= 3
       THEN join(SubSeq(parts, Len(parts) - 1, Len(parts)), ".")
       ELSE d2

\* pretty_from_domain with its test inverted: Unknown for every core that is not empty
pretty_from_domain_inverted(d) ==
    LET core == split(base_domain(d), ".")[1]
    IN IF core = <<>> THEN capitalize(core) ELSE Unknown

pretty_from_domain(d) ==
    LET core == split(base_domain(d), ".")[1]
    IN IF core # <<>> THEN capitalize(core) ELSE Unknown

---------------------------------------------------------------------------
(* attendees_to_company: the configuration read from the environment *)

DEFAULT_INTERNAL == <<"k", "e", "m", "p", "f", "e", "n", "t", "e", "r", "p", "r", "i", "s", "e", ".", "c", "o", "m", ",", "g", "m", "a", "i", "l", ".", "c", "o", "m", ",", "o", "u", "t", "l", "o", "o", "k", ".", "c", "o", "m", ",", "h", "o", "t", "m", "a", "i", "l", ".", "c", "o", "m", ",", "y", "a", "h", "o", "o", ".", "c", "o", "m", ",", "i", "c", "l", "o", "u", "d", ".", "c", "o", "m", ",", "a", "o", "l", ".", "c", "o", "m", ",", "p", "r", "o", "t", "o", "n", ".", "m", "e", ",", "p", "r", "o", "t", "o", "n", "m", "a", "i", "l", ".", "c", "o", "m", ",", "m", "e", ".", "c", "o", "m">>
DEFAULT_IGNORE == <<"z", "o", "o", "m", ".", "u", "s", ",", "m", "e", "e", "t", "u", "p", ".", "c", "o", "m", ",", "c", "a", "l", "e", "n", "d", "a", "r", ".", "g", "o", "o", "g", "l", "e", ".", "c", "o", "m", ",", "t", "e", "a", "m", "s", ".", "m", "i", "c", "r", "o", "s", "o", "f", "t", ".", "c", "o", "m">>

\* os.getenv(name, default)
getenv(e, name, default) == IF e[name] = None THEN default ELSE e[name]

\* [d.strip().lower() for d in value.split(",") if d.strip()]
domain_list(value) ==
    LET pieces == SelectSeq(split(value, ","), LAMBDA d : strip(d) # <<>>)
    IN [i \in 1..Len(pieces) |-> lower(strip(pieces[i]))]

elements(seq) == {seq[i] : i \in 1..Len(seq)}

\* the loop filling NAME_MAP: a later pair for the same domain replaces an earlier one
RECURSIVE name_map(_)
name_map(pairs) ==
    IF pairs = <<>> THEN <<>>
    ELSE LET rest == name_map(SubSeq(pairs, 1, Len(pairs) - 1))
             pair == pairs[Len(pairs)]
             dom == lower(strip(SubSeq(pair, 1, find(pair, ":") - 1)))
             name == strip(SubSeq(pair, find(pair, ":") + 1, Len(pair)))
         IN [x \in (DOMAIN rest) \cup {dom} |-> IF x = dom THEN name ELSE rest[x]]

\* [p.strip() for p in value.split(",") if ":" in p]
name_pairs(value) ==
    LET pieces == SelectSeq(split(value, ","), LAMBDA p : contains(p, ":"))
    IN [i \in 1..Len(pieces) |-> strip(pieces[i])]

\* NAME_MAP.get(d, default)
map_get(m, d, default) == IF d \in DOMAIN m THEN m[d] ELSE default

---------------------------------------------------------------------------
(* attendees_to_company: stages 1 to 4, the domains of the attendees *)

\* an attendees argument of None: a list is a sequence of entries, and this
\* entry is no attendee
NoneList == <<[kind |-> "<None>", val |-> <<>>]>>

\* a dict's "email" value that is not None and not a string (an int, a list)
NonString == <<"<NonString>">>

NoResult == [companyDomain |-> None, companyName |-> None]

\* attendees or []
OrEmptyList(as) == IF as = NoneList THEN <<>> ELSE as

\* email_raises without the "or": None.lower() raises too
email_raises_missing(a) == a.kind = "dict" /\ (a.val = NonString \/ a.val = None)

\* (a.get("email") or "").lower() of a dict whose email is no string raises
email_raises(a) == a.kind = "dict" /\ a.val = NonString

\* the local email: (a.get("email") or "").lower().strip() of a dict,
\* str(a).lower().strip() of anything else (val is str(a))
email_of(a) ==
    IF a.kind = "dict" THEN strip(lower(OrEmpty(a.val))) ELSE strip(lower(a.val))

\* email.split("@", 1)[1]
after_at(email) == SubSeq(email, find(email, "@") + 1, Len(email))

\* the loop of stage 1 over the attendees: the list domains
RECURSIVE collect_domains(_)
collect_domains(as) ==
    IF as = <<>> THEN <<>>
    ELSE LET email == email_of(Head(as))
         IN (IF contains(email, "@") THEN <<base_domain(after_at(email))>> ELSE <<>>)
            \o collect_domains(Tail(as))

\* d and d not in INTERNAL and d not in IGNORE
is_external(d, internal, ignore) == d # <<>> /\ d \notin internal /\ d \notin ignore

\* filter_external without the test against IGNORE
filter_external_internal_only(doms, internal, ignore) ==
    SelectSeq(doms, LAMBDA d : d # <<>> /\ d \notin internal)

\* [d for d in domains if d and d not in INTERNAL and d not in IGNORE]
filter_external(doms, internal, ignore) ==
    SelectSeq(doms, LAMBDA d : is_external(d, internal, ignore))

\* priority_hit returning the last entry that is present, not the first
priority_hit_last(priority, ext) ==
    LET hits == {i \in 1..Len(priority) : base_domain(priority[i]) \in elements(ext)}
    IN IF hits = {} THEN 0 ELSE CHOOSE i \in hits : \A j \in hits : j <= i

count(ext, d) == Cardinality({i \in 1..Len(ext) : ext[i] = d})

\* the loop of stage 2: the index of the first entry p of PRIORITY with
\* base_domain(p) in external, 0 when the loop ends without returning
priority_hit(priority, ext) ==
    LET hits == {i \in 1..Len(priority) : base_domain(priority[i]) \in elements(ext)}
    IN IF hits = {} THEN 0 ELSE CHOOSE i \in hits : \A j \in hits : i <= j

\* most_common returning the last of the most frequent domains, not the first
most_common_last(ext) ==
    LET best == {i \in 1..Len(ext) : \A j \in 1..Len(ext) : count(ext, ext[j]) <= count(ext, ext[i])}
    IN ext[CHOOSE i \in best : \A j \in best : j <= i]

\* Counter(external).most_common(1)[0][0], external not empty: the Counter keeps
\* its keys in the order of first insertion and max() returns the first maximum
most_common(ext) ==
    LET best == {i \in 1..Len(ext) : \A j \in 1..Len(ext) : count(ext, ext[j]) <= count(ext, ext[i])}
    IN ext[CHOOSE i \in best : \A j \in best : i <= j]

\* the loop of stage 4 with a laxer test: the first non-empty domain, whether
\* internal, ignored or neither
fallback_hit_any(doms, internal, ignore) ==
    LET hits == {i \in 1..Len(doms) : doms[i] # <<>>}
    IN IF hits = {} THEN 0 ELSE CHOOSE i \in hits : \A j \in hits : i <= j

\* the loop of stage 4: the index of the first domain that passes the test, or 0
fallback_hit(doms, internal, ignore) ==
    LET hits == {i \in 1..Len(doms) : is_external(doms[i], internal, ignore)}
    IN IF hits = {} THEN 0 ELSE CHOOSE i \in hits : \A j \in hits : i <= j

\* the returned dict without the domain that decided
company_of_no_domain(d, names) ==
    [companyDomain |-> <<>>, companyName |-> map_get(names, d, pretty_from_domain(d))]

\* {"companyDomain": d, "companyName": NAME_MAP.get(d, pretty_from_domain(d))}
company_of(d, names) ==
    [companyDomain |-> d, companyName |-> map_get(names, d, pretty_from_domain(d))]

---------------------------------------------------------------------------
(* attendees_to_company: stage 5, the three regular expressions *)

NoMatch == <<"<NoMatch>">>

IsLetter(c) == c \in UpperSet \/ c \in LowerSet

\* the class [A-Za-z0-9&.\- ]
PhraseChar(c) == IsLetter(c) \/ c \in Digits \/ c \in {"&", ".", "-", " "}

\* [A-Z], which under re.IGNORECASE matches the lower-case letters too
Capital(c, ignorecase) == c \in UpperSet \/ (ignorecase /\ c \in LowerSet)

\* the literal lit at position i of t, letters compared as the flag says
lit_at(t, i, lit, ignorecase) ==
    /\ i + Len(lit) - 1 <= Len(t)
    /\ \A k \in 1..Len(lit) :
          IF ignorecase THEN lower(<<t[i + k - 1]>>) = lower(<<lit[k]>>)
          ELSE t[i + k - 1] = lit[k]

\* \s* from position i: the position after the white space (greedy; giving
\* back white space never helps, the next item being a letter)
skip_space(t, i) ==
    CHOOSE j \in i..(Len(t) + 1) :
        /\ \A k \in i..(j - 1) : IsSpace(t[k])
        /\ (j = Len(t) + 1 \/ ~IsSpace(t[j]))

\* the last position of the longest run of PhraseChar from position i (i - 1: none)
run_end(t, i) ==
    CHOOSE j \in (i - 1)..Len(t) :
        /\ \A k \in i..j : PhraseChar(t[k])
        /\ (j = Len(t) \/ ~PhraseChar(t[j + 1]))

\* ([A-Z][A-Za-z0-9&.\- ]{2,}) at position i: the last position of the group, 0: no match
phrase_end(t, i, ignorecase) ==
    IF i <= Len(t) /\ Capital(t[i], ignorecase) /\ run_end(t, i + 1) >= i + 2
    THEN run_end(t, i + 1) ELSE 0

\* (?:with|for)\s+([A-Z][A-Za-z0-9&.\- ]{2,}), re.IGNORECASE, matched at position i
with_for_at(t, i) ==
    LET n == IF lit_at(t, i, <<"w", "i", "t", "h">>, TRUE) THEN 4
             ELSE IF lit_at(t, i, <<"f", "o", "r">>, TRUE) THEN 3 ELSE 0
        g == skip_space(t, i + n)
    IN IF n > 0 /\ g > i + n /\ phrase_end(t, g, TRUE) > 0
       THEN SubSeq(t, g, phrase_end(t, g, TRUE)) ELSE NoMatch

\* POC[:\-]\s*([A-Z][A-Za-z0-9&.\- ]{2,}), re.IGNORECASE, matched at position i
poc_at(t, i) ==
    LET g == skip_space(t, i + 4)
    IN IF /\ lit_at(t, i, <<"P", "O", "C">>, TRUE)
          /\ i + 3 <= Len(t)
          /\ t[i + 3] \in {":", "-"}
          /\ phrase_end(t, g, TRUE) > 0
       THEN SubSeq(t, g, phrase_end(t, g, TRUE)) ELSE NoMatch

\* \(([A-Z][A-Za-z0-9&.\- ]{2,})\), case-sensitive, matched at position i
paren_at(t, i) ==
    LET e == phrase_end(t, i + 1, FALSE)
    IN IF t[i] = "(" /\ e > 0 /\ e + 1 <= Len(t) /\ t[e + 1] = ")"
       THEN SubSeq(t, i + 1, e) ELSE NoMatch

\* re.search: group 1 of the leftmost match, or NoMatch
search_with_for(t) ==
    LET hits == {i \in 1..Len(t) : with_for_at(t, i) # NoMatch}
    IN IF hits = {} THEN NoMatch ELSE with_for_at(t, CHOOSE i \in hits : \A j \in hits : i <= j)

search_poc(t) ==
    LET hits == {i \in 1..Len(t) : poc_at(t, i) # NoMatch}
    IN IF hits = {} THEN NoMatch ELSE poc_at(t, CHOOSE i \in hits : \A j \in hits : i <= j)

search_paren(t) ==
    LET hits == {i \in 1..Len(t) : paren_at(t, i) # NoMatch}
    IN IF hits = {} THEN NoMatch ELSE paren_at(t, CHOOSE i \in hits : \A j \in hits : i <= j)

\* first_match trying the POC pattern before the with|for pattern
first_match_poc_first(t) ==
    IF search_poc(t) # NoMatch THEN search_poc(t)
    ELSE IF search_with_for(t) # NoMatch THEN search_with_for(t)
    ELSE search_paren(t)

\* m = re.search(...) or re.search(...) or re.search(...); m.group(1), or NoMatch
first_match(t) ==
    IF search_with_for(t) # NoMatch THEN search_with_for(t)
    ELSE IF search_poc(t) # NoMatch THEN search_poc(t)
    ELSE search_paren(t)

STOP_WORDS == {<<"p", "o", "c">>, <<"c", "a", "l", "l">>, <<"m", "e", "e", "t", "i", "n", "g">>, <<"d", "e", "m", "o">>, <<"d", "i", "s", "c", "o", "v", "e", "r", "y">>}

\* " ".join([(event_summary or ""), (event_description or "")])
event_text(summary, description) == OrEmpty(summary) \o <<" ">> \o OrEmpty(description)

\* stage 5: the candidate m.group(1).strip() when it is returned, NoMatch when
\* nothing matched or the candidate is a stop word
text_candidate(t) ==
    LET g == first_match(t)
    IN IF g # NoMatch /\ lower(strip(g)) \notin STOP_WORDS THEN strip(g) ELSE NoMatch

---------------------------------------------------------------------------
(* attendees_to_company: the calls the model makes *)

\* attendee entries: a dict (val: its "email", None when missing), a string
\* (val: the string), anything else (val: str(a))
AttendeePool == {
    [kind |-> "str",   val |-> <<" ", "J", "o", "e", "@", "A", "C", "M", "E", ".", "c", "o", "m", " ">>],
    [kind |-> "dict",  val |-> <<"s", "a", "m", "@", "m", "a", "i", "l", ".", "b", "e", "t", "a", ".", "c", "o", "m">>],
    [kind |-> "dict",  val |-> <<"m", "e", "@", "g", "m", "a", "i", "l", ".", "c", "o", "m">>],
    [kind |-> "dict",  val |-> <<"b", "o", "t", "@", "c", "a", "l", "e", "n", "d", "a", "r", ".", "g", "o", "o", "g", "l", "e", ".", "c", "o", "m">>],
    [kind |-> "str",   val |-> <<"z", "e", "d", "@", "z", "o", "o", "m", ".", "u", "s">>],
    [kind |-> "dict",  val |-> <<"x", "@", "u", "n", "k", "n", "o", "w", "n", ".", "c", "o", "m">>],
    [kind |-> "dict",  val |-> None],
    [kind |-> "other", val |-> <<"5">>],
    [kind |-> "dict",  val |-> NonString] }

AttendeeLists == {NoneList} \cup UNION {[1..k -> AttendeePool] : k \in 0..MaxAttendees}

\* (event_summary, event_description)
TextPool == {
    <<None, None>>,
    <<<<"K", "i", "c", "k", "o", "f", "f", " ", "c", "a", "l", "l", " ", "w", "i", "t", "h", " ", "B", "e", "t", "a", " ", "C", "o", "r", "p">>, <<>>>>,
    <<<<"P", "O", "C", ":", " ", "D", "e", "m", "o">>, None>>,
    <<<<"P", "O", "C", ":", " ", "D", "e", "m", "o", " ", "(", "A", "c", "m", "e", ")">>, None>>,
    <<<<"s", "y", "n", "c", " ", "w", "i", "t", "h", " ", "a", "c", "m", "e">>, None>>,
    <<<<"R", "e", "v", "i", "e", "w", " ", "(", "A", "c", "m", "e", ")">>, <<"n", "o", "t", "e", "s">>>>,
    <<<<"P", "O", "C", "-", " ", "I", "n", "i", "t", "e", "c", "h">>, <<"f", "o", "r", " ", "D", "e", "m", "o">>>>,
    <<<<"C", "h", "a", "t", " ", "w", "i", "t", "h", " ", "U", "n", "k", "n", "o", "w", "n">>, None>> }

EnvPool == {
    [INTERNAL_DOMAINS |-> None, IGNORE_DOMAINS |-> None,
     DOMAIN_PRIORITY |-> None, DOMAIN_NAME_MAP |-> None],
    [INTERNAL_DOMAINS |-> <<" ", "K", "e", "m", "p", "f", "e", "n", "t", "e", "r", "p", "r", "i", "s", "e", ".", "c", "o", "m", " ", ",", "g", "m", "a", "i", "l", ".", "c", "o", "m", ",">>, IGNORE_DOMAINS |-> None,
     DOMAIN_PRIORITY |-> <<"k", "e", "m", "p", "f", "e", "n", "t", "e", "r", "p", "r", "i", "s", "e", ".", "c", "o", "m", ",", "M", "a", "i", "l", ".", "B", "e", "t", "a", ".", "c", "o", "m", ",", " ", "a", "c", "m", "e", ".", "c", "o", "m">>,
     DOMAIN_NAME_MAP |-> None],
    [INTERNAL_DOMAINS |-> None, IGNORE_DOMAINS |-> <<"z", "o", "o", "m", ".", "u", "s">>,
     DOMAIN_PRIORITY |-> <<"a", "c", "m", "e", ".", "c", "o", "m", ",", "b", "e", "t", "a", ".", "c", "o", "m">>,
     DOMAIN_NAME_MAP |-> <<"a", "c", "m", "e", ".", "c", "o", "m", ":", "A", "c", "m", "e", ",", "b", "o", "g", "u", "s", ",", " ", "B", "e", "t", "a", ".", "c", "o", "m", " ", ":", " ", "B", "e", "t", "a", " ", "C", "o", "r", "p", ",", "a", "c", "m", "e", ".", "c", "o", "m", ":", "A", "C", "M", "E", " ", "I", "n", "c">>] }

\* lines 133-154: the four settings as the call parses them from the environment,
\* which is fixed while the process runs
read_config(e) ==
    [INTERNAL |-> elements(domain_list(getenv(e, "INTERNAL_DOMAINS", DEFAULT_INTERNAL))),
     IGNORE   |-> elements(domain_list(getenv(e, "IGNORE_DOMAINS", DEFAULT_IGNORE))),
     PRIORITY |-> domain_list(getenv(e, "DOMAIN_PRIORITY", <<>>)),
     NAME_MAP |-> name_map(name_pairs(getenv(e, "DOMAIN_NAME_MAP", <<>>)))]

Configurations == {read_config(e) : e \in EnvPool}

\* the variables of the operations a specification does not run keep these values
NoEvent == [attendees |-> <<>>, organizer |-> [present |-> FALSE, email |-> None],
            creator |-> [present |-> FALSE, email |-> None]]

EmailsIdle ==
    /\ event = NoEvent
    /\ emails = <<>>
    /\ out = <<>>

NoCall == [summary |-> None, description |-> None, result |-> NoResult]

RerunIdle == first = NoCall

\* the text area is not drawn
NotShown == [kind |-> "<NotShown>", event |-> None, call |-> 0]

\* a session in which the script has drawn nothing yet
AppIdle ==
    /\ rows = <<>>
    /\ idx = 0
    /\ summaries = <<>>
    /\ current_event_id = None
    /\ shown = NotShown
    /\ generations = <<>>

NormIdle ==
    /\ d_in = NoString
    /\ d_once = NoString
    /\ d_twice = NoString

CallIdle ==
    /\ attendees = <<>>
    /\ event_summary = None
    /\ event_description = None
    /\ INTERNAL = {}
    /\ IGNORE = {}
    /\ PRIORITY = <<>>
    /\ NAME_MAP = <<>>
    /\ domains = <<>>
    /\ external = <<>>
    /\ result = NoResult
    /\ stage = 0

Init ==
    /\ pc = "collect"
    /\ attendees \in AttendeeLists
    /\ \E t \in TextPool : event_summary = t[1] /\ event_description = t[2]
    /\ \E c \in Configurations :
          /\ INTERNAL = c.INTERNAL
          /\ IGNORE = c.IGNORE
          /\ PRIORITY = c.PRIORITY
          /\ NAME_MAP = c.NAME_MAP
    /\ domains = <<>>
    /\ external = <<>>
    /\ result = NoResult
    /\ stage = 0
    /\ NormIdle
    /\ EmailsIdle
    /\ RerunIdle
    /\ AppIdle

\* 1) collect the candidate domains, then remove internal and utility domains
CollectDomains ==
    /\ pc = "collect"
    /\ IF \E i \in 1..Len(OrEmptyList(attendees)) : email_raises(OrEmptyList(attendees)[i])
       THEN /\ pc' = "raised"
            /\ UNCHANGED <<domains, external>>
       ELSE /\ domains' = collect_domains(OrEmptyList(attendees))
            /\ external' = filter_external(domains', INTERNAL, IGNORE)
            /\ pc' = "priority"
    /\ UNCHANGED <<attendees, event_summary, event_description, INTERNAL,
                   IGNORE, PRIORITY, NAME_MAP, result, stage, normVars, emailVars, rerunVars, appVars>>

Return(r, n) ==
    /\ result' = r
    /\ stage' = n
    /\ pc' = "done"

Continue(next) ==
    /\ pc' = next
    /\ UNCHANGED <<result, stage>>

inputVars == <<attendees, event_summary, event_description, INTERNAL,
               IGNORE, PRIORITY, NAME_MAP, domains, external>>

\* 2) a priority domain wins if present
PriorityStage ==
    /\ pc = "priority"
    /\ LET hit == priority_hit(PRIORITY, external)
       IN IF hit > 0
          THEN Return(company_of(base_domain(PRIORITY[hit]), NAME_MAP), 2)
          ELSE Continue("majority")
    /\ UNCHANGED <<inputVars, normVars, emailVars, rerunVars, appVars>>

\* 3) majority vote among the external domains
MajorityStage ==
    /\ pc = "majority"
    /\ IF external # <<>>
       THEN Return(company_of(most_common(external), NAME_MAP), 3)
       ELSE Continue("fallback")
    /\ UNCHANGED <<inputVars, normVars, emailVars, rerunVars, appVars>>

\* 4) fallback: any non-internal, non-ignored domain at all
FallbackStage ==
    /\ pc = "fallback"
    /\ LET hit == fallback_hit(domains, INTERNAL, IGNORE)
       IN IF hit > 0
          THEN Return(company_of(domains[hit], NAME_MAP), 4)
          ELSE Continue("text")
    /\ UNCHANGED <<inputVars, normVars, emailVars, rerunVars, appVars>>

\* 5) title and description fallback
TextStage ==
    /\ pc = "text"
    /\ LET cand == text_candidate(event_text(event_summary, event_description))
       IN IF cand # NoMatch
          THEN Return([companyDomain |-> <<>>, companyName |-> cand], 5)
          ELSE Continue("unknown")
    /\ UNCHANGED <<inputVars, normVars, emailVars, rerunVars, appVars>>

\* 6) Unknown
UnknownStage ==
    /\ pc = "unknown"
    /\ Return([companyDomain |-> <<>>, companyName |-> Unknown], 6)
    /\ UNCHANGED <<inputVars, normVars, emailVars, rerunVars, appVars>>

Next ==
    \/ CollectDomains
    \/ PriorityStage
    \/ MajorityStage
    \/ FallbackStage
    \/ TextStage
    \/ UnknownStage

Spec == Init /\ [][Next]_vars

---------------------------------------------------------------------------
(* Properties of attendees_to_company *)

Returned == pc = "done"

\* the external domains, as a set
ExternalSet == elements(external)

\* the text the text stage searches
EventText == event_text(event_summary, event_description)

\* the raw domain part of attendee a, the text after the first "@" of its
\* lower-cased, trimmed e-mail (the attendee has one)
HasEmail(a) == ~email_raises(a) /\ contains(email_of(a), "@")
RawDomain(a) == after_at(email_of(a))

\* C1: when a normalized priority entry occurs among the external domains, the
\* returned companyDomain is the first such entry in the order of PRIORITY,
\* however often the other external domains occur
C1_PriorityWins ==
    Returned =>
        \A i \in 1..Len(PRIORITY) :
            (/\ base_domain(PRIORITY[i]) \in ExternalSet
             /\ \A j \in 1..(i - 1) : base_domain(PRIORITY[j]) \notin ExternalSet)
            => result.companyDomain = base_domain(PRIORITY[i])

\* C1 witness: a later priority entry won over an earlier one that is not present
\* and over an external domain that occurs more often
C1_Witness ==
    /\ Returned
    /\ stage = 2
    /\ result.companyDomain = <<"b", "e", "t", "a", ".", "c", "o", "m">>
    /\ PRIORITY[1] # <<"b", "e", "t", "a", ".", "c", "o", "m">>
    /\ count(external, <<"a", "c", "m", "e", ".", "c", "o", "m">>) > count(external, <<"b", "e", "t", "a", ".", "c", "o", "m">>)

FirstIndex(ext, d) == CHOOSE i \in 1..Len(ext) : ext[i] = d /\ \A j \in 1..(i - 1) : ext[j] # d

NoPriorityPresent == \A i \in 1..Len(PRIORITY) : base_domain(PRIORITY[i]) \notin ExternalSet

\* C2: with external domains and no priority entry among them, the returned
\* companyDomain is a most frequent external domain, and of the most frequent
\* ones the one met first in the list
C2_MajorityFirstSeen ==
    (Returned /\ external # <<>> /\ NoPriorityPresent) =>
        /\ result.companyDomain \in ExternalSet
        /\ \A e \in ExternalSet :
              /\ count(external, e) <= count(external, result.companyDomain)
              /\ count(external, e) = count(external, result.companyDomain)
                    => FirstIndex(external, result.companyDomain) <= FirstIndex(external, e)

\* C2 witness: a tie for the maximum between the returned domain and another one
C2_Witness ==
    /\ Returned
    /\ stage = 3
    /\ \E e \in ExternalSet :
          /\ e # result.companyDomain
          /\ count(external, e) = count(external, result.companyDomain)

\* C3: a returned companyDomain that is not empty is neither in INTERNAL nor in IGNORE
C3_NoExcludedDomain ==
    (Returned /\ result.companyDomain # <<>>) =>
        /\ result.companyDomain \notin INTERNAL
        /\ result.companyDomain \notin IGNORE

\* C3 witness: a domain was returned although the attendees brought an internal
\* and an ignored domain too
C3_Witness ==
    /\ Returned
    /\ result.companyDomain # <<>>
    /\ \E i \in 1..Len(domains) : domains[i] \in INTERNAL
    /\ \E i \in 1..Len(domains) : domains[i] \in IGNORE

\* attendee a's raw domain part is an entry of INTERNAL or of IGNORE
Excluded(a) == HasEmail(a) /\ (RawDomain(a) \in INTERNAL \/ RawDomain(a) \in IGNORE)

\* C5: the domain of an attendee whose raw domain part is an entry of INTERNAL or
\* IGNORE is removed by the filter: it is among the external domains only when an
\* attendee that is not excluded brought it too, and it is not returned otherwise
C5_ExcludedAttendeeRemoved ==
    Returned =>
        \A i \in 1..Len(OrEmptyList(attendees)) :
            LET a == OrEmptyList(attendees)[i]
                kept == \E j \in 1..Len(OrEmptyList(attendees)) :
                            LET b == OrEmptyList(attendees)[j]
                            IN HasEmail(b) /\ ~Excluded(b)
                               /\ base_domain(RawDomain(b)) = base_domain(RawDomain(a))
            IN (Excluded(a) /\ ~kept) =>
                  /\ base_domain(RawDomain(a)) \notin ExternalSet
                  /\ result.companyDomain # base_domain(RawDomain(a))

\* the capture of the first of the three patterns, in the order with|for, POC,
\* parentheses, that matches the text; NoMatch when none does
DecidingCapture(t) ==
    CASE search_with_for(t) # NoMatch -> search_with_for(t)
      [] search_with_for(t) = NoMatch /\ search_poc(t) # NoMatch -> search_poc(t)
      [] OTHER -> search_paren(t)

UnknownResult == [companyDomain |-> <<>>, companyName |-> Unknown]

\* the text stage ran: the call returned from stage 5 or from stage 6
TextStageRan == Returned /\ stage \in {5, 6}

\* C6: the text stage runs only without external domains; the first pattern that
\* matches decides: a stop word gives the Unknown result, no later pattern being
\* tried, and any other capture is returned, trimmed
C6_FirstPatternDecides ==
    TextStageRan =>
        /\ external = <<>>
        /\ LET g == DecidingCapture(EventText)
           IN /\ (g # NoMatch /\ lower(strip(g)) \in STOP_WORDS) => result = UnknownResult
              /\ (g # NoMatch /\ lower(strip(g)) \notin STOP_WORDS)
                    => result = [companyDomain |-> <<>>, companyName |-> strip(g)]
              /\ g = NoMatch => result = UnknownResult

\* C6 witness: the POC pattern captured a stop word, the parenthesised pattern
\* would have matched, and the result is Unknown
C6_Witness ==
    /\ TextStageRan
    /\ search_with_for(EventText) = NoMatch
    /\ search_poc(EventText) # NoMatch
    /\ lower(strip(search_poc(EventText))) \in STOP_WORDS
    /\ search_paren(EventText) # NoMatch
    /\ result = UnknownResult

\* the inputs the claim of totality covers: every dict's email is missing, empty
\* or a string
InDomain == \A i \in 1..Len(OrEmptyList(attendees)) : OrEmptyList(attendees)[i].val # NonString

NoEvidence ==
    /\ \A i \in 1..Len(OrEmptyList(attendees)) : ~HasEmail(OrEmptyList(attendees)[i])
    /\ text_candidate(EventText) = NoMatch

\* C7: on these inputs the call raises nothing and returns one result with a
\* companyName and a companyDomain; entries without a usable e-mail bring no
\* domain, and without any evidence the result is Unknown
C7_Total ==
    InDomain =>
        /\ pc # "raised"
        /\ pc \in {"collect", "priority", "majority", "fallback", "text", "unknown", "done"}
        /\ (result # NoResult) = Returned
        /\ Returned =>
              /\ result.companyName # None
              /\ result.companyDomain # None
              /\ Len(domains) = Cardinality({i \in 1..Len(OrEmptyList(attendees)) :
                                                HasEmail(OrEmptyList(attendees)[i])})
              /\ NoEvidence => result = UnknownResult

\* C7 witness: a call with a dict without email and an entry that is neither
\* dict nor string, and no text, returned Unknown
C7_Witness ==
    /\ Returned
    /\ InDomain
    /\ \E i \in 1..Len(OrEmptyList(attendees)) :
          OrEmptyList(attendees)[i] = [kind |-> "dict", val |-> None]
    /\ \E i \in 1..Len(OrEmptyList(attendees)) : OrEmptyList(attendees)[i].kind = "other"
    /\ event_summary = None
    /\ result = UnknownResult

\* C9 as stated: without a name map, the name Unknown is returned only when there
\* is no evidence: no domain returned, no external domain, no phrase accepted
C9_UnknownOnlyWithoutEvidence ==
    (Returned /\ NAME_MAP = <<>> /\ result.companyName = Unknown) =>
        /\ result.companyDomain = <<>>
        /\ external = <<>>
        /\ text_candidate(EventText) = NoMatch

\* the first label of the returned domain, normalized as pretty_from_domain does
CoreOfResult == split(base_domain(result.companyDomain), ".")[1]

\* C9 amended: without a name map, the name Unknown is returned only when there is
\* no evidence, or as the display name of a returned external domain whose first
\* label (after base_domain) is empty or spells unknown, or as the accepted text
\* phrase when that phrase is itself Unknown
C9_UnknownCases ==
    (Returned /\ NAME_MAP = <<>> /\ result.companyName = Unknown) =>
        \/ /\ result.companyDomain = <<>>
           /\ external = <<>>
           /\ text_candidate(EventText) = NoMatch
        \/ /\ result.companyDomain # <<>>
           /\ result.companyDomain \in ExternalSet
           /\ CoreOfResult \in {<<>>, <<"u", "n", "k", "n", "o", "w", "n">>}
        \/ /\ result.companyDomain = <<>>
           /\ external = <<>>
           /\ text_candidate(EventText) = Unknown

\* C9 witness: the name Unknown returned with the domain unknown.com
C9_Witness ==
    /\ Returned
    /\ NAME_MAP = <<>>
    /\ result.companyName = Unknown
    /\ result.companyDomain = <<"u", "n", "k", "n", "o", "w", "n", ".", "c", "o", "m">>

\* C10: a name returned by the text stage starts with an upper-case letter
C10_TextNameCapitalized ==
    (Returned /\ stage = 5 /\ result.companyDomain = <<>>) =>
        result.companyName[1] \in UpperSet

\* C12: stage 4 never produces the result.  When a call stands at stage 4 the
\* external list is empty and the loop over the collected domains finds no
\* domain that is non-empty and outside both INTERNAL and IGNORE, so the call
\* goes on to the text stage; no returned call was decided by stage 4.
C12_FallbackNeverDecides ==
    /\ pc = "fallback" =>
          /\ external = <<>>
          /\ fallback_hit(domains, INTERNAL, IGNORE) = 0
          /\ \A i \in 1..Len(domains) :
                domains[i] = <<>> \/ domains[i] \in INTERNAL \/ domains[i] \in IGNORE
    /\ Returned => stage # 4

\* a call stands at stage 4 with collected domains, all of them excluded
C12_Witness ==
    /\ pc = "fallback"
    /\ Len(domains) >= 2
    /\ \E i \in 1..Len(domains) : domains[i] \in INTERNAL
    /\ \E i \in 1..Len(domains) : domains[i] \in IGNORE

---------------------------------------------------------------------------
(* collect_event_emails (app.py) *)

\* the first loop: the e-mails of the attendees. A dict brings its stripped,
\* lower-cased email when that is not empty, a string brings itself stripped and
\* lower-cased, anything else brings nothing
RECURSIVE attendee_emails(_)
attendee_emails(as) ==
    IF as = <<>> THEN <<>>
    ELSE LET a == Head(as)
             em == lower(strip(OrEmpty(a.val)))
         IN (IF a.kind = "dict" THEN (IF em # <<>> THEN <<em>> ELSE <<>>)
             ELSE IF a.kind = "str" THEN <<lower(strip(a.val))>>
             ELSE <<>>)
            \o attendee_emails(Tail(as))

\* the second loop, for one key: info = e.get(key) or {}, then its email when not empty
party_email(info) ==
    LET em == IF info.present THEN lower(strip(OrEmpty(info.email))) ELSE <<>>
    IN IF em # <<>> THEN <<em>> ELSE <<>>

\* the third loop: every e-mail once, where it comes first
RECURSIVE dedupe(_)
dedupe(ems) ==
    IF ems = <<>> THEN <<>>
    ELSE LET rest == dedupe(SubSeq(ems, 1, Len(ems) - 1))
             em == ems[Len(ems)]
         IN IF em \in elements(rest) THEN rest ELSE Append(rest, em)

EventAttendeePool == {
    [kind |-> "dict",  val |-> <<"A", "@", "x", ".", "i", "o">>],
    [kind |-> "dict",  val |-> <<" ", "a", "@", "X", ".", "i", "o">>],
    [kind |-> "str",   val |-> <<"B", "@", "x", ".", "i", "o", " ">>],
    [kind |-> "str",   val |-> <<" ", " ">>],
    [kind |-> "dict",  val |-> None],
    [kind |-> "other", val |-> <<"5">>] }

\* an organizer or creator: missing, a dict without email, a dict with one
PartyPool == {
    [present |-> FALSE, email |-> None],
    [present |-> TRUE,  email |-> None],
    [present |-> TRUE,  email |-> <<"b", "@", "x", ".", "i", "o">>],
    [present |-> TRUE,  email |-> <<"O", "@", "x", ".", "i", "o">>] }

Events ==
    [attendees : {NoneList} \cup UNION {[1..k -> EventAttendeePool] : k \in 0..MaxEventAttendees},
     organizer : PartyPool,
     creator   : PartyPool]

EmailsInit ==
    /\ pc = "attendees"
    /\ event \in Events
    /\ emails = <<>>
    /\ out = <<>>
    /\ CallIdle
    /\ NormIdle
    /\ RerunIdle
    /\ AppIdle

\* for a in (e.get("attendees") or [])
AttendeeLoop ==
    /\ pc = "attendees"
    /\ emails' = attendee_emails(OrEmptyList(event.attendees))
    /\ pc' = "parties"
    /\ UNCHANGED <<event, out, callVars, normVars, rerunVars, appVars>>

\* for key in ("organizer", "creator")
OrganizerCreatorLoop ==
    /\ pc = "parties"
    /\ emails' = emails \o party_email(event.organizer) \o party_email(event.creator)
    /\ pc' = "dedupe"
    /\ UNCHANGED <<event, out, callVars, normVars, rerunVars, appVars>>

\* deduplicate, keep order, return
Deduplicate ==
    /\ pc = "dedupe"
    /\ out' = dedupe(emails)
    /\ pc' = "collected"
    /\ UNCHANGED <<event, emails, callVars, normVars, rerunVars, appVars>>

EmailsNext == AttendeeLoop \/ OrganizerCreatorLoop \/ Deduplicate

SpecEmails == EmailsInit /\ [][EmailsNext]_vars

\* the e-mail text of each record of the event, in the order attendees, organizer,
\* creator: stripped and lower-cased, empty for a record without one
RecordEmails ==
    LET as == OrEmptyList(event.attendees)
        one(a) == IF a.kind = "other" THEN <<>> ELSE lower(strip(OrEmpty(a.val)))
        party(p) == IF p.present THEN lower(strip(OrEmpty(p.email))) ELSE <<>>
    IN [i \in 1..Len(as) |-> one(as[i])] \o <<party(event.organizer), party(event.creator)>>

\* C8: the list returned holds lower-cased addresses, each once, in the order of
\* their first occurrence among the records; every usable e-mail is in it and a
\* record without a usable e-mail brings no element
C8_DedupedInOrder ==
    pc = "collected" =>
        LET usable == SelectSeq(RecordEmails, LAMBDA em : em # <<>>)
        IN /\ \A i, j \in 1..Len(out) : out[i] = out[j] => i = j
           /\ \A i \in 1..Len(out) : out[i] = lower(out[i]) /\ out[i] # <<>>
           /\ elements(out) = elements(usable)
           /\ \A i, j \in 1..Len(out) :
                 i < j => FirstIndex(usable, out[i]) < FirstIndex(usable, out[j])

---------------------------------------------------------------------------
(* base_domain applied once and twice to every short domain string *)

DomainChars == {"a", "w", "A", ".", "@", " "}

DomainStrings == UNION {[1..k -> DomainChars] : k \in 0..MaxDomainLen}

NormInit ==
    /\ pc = "normalize"
    /\ d_in \in DomainStrings
    /\ d_once = NoString
    /\ d_twice = NoString
    /\ CallIdle
    /\ EmailsIdle
    /\ RerunIdle
    /\ AppIdle

NormalizeOnce ==
    /\ pc = "normalize"
    /\ d_once' = base_domain(d_in)
    /\ pc' = "renormalize"
    /\ UNCHANGED <<callVars, emailVars, rerunVars, appVars, d_in, d_twice>>

NormalizeTwice ==
    /\ pc = "renormalize"
    /\ d_twice' = base_domain(d_once)
    /\ pc' = "normalized"
    /\ UNCHANGED <<callVars, emailVars, rerunVars, appVars, d_in, d_once>>

NormNext == NormalizeOnce \/ NormalizeTwice

SpecNorm == NormInit /\ [][NormNext]_vars

\* C4: base_domain is idempotent: normalizing a normalized domain changes nothing
C4_Idempotent == pc = "normalized" => d_twice = d_once

---------------------------------------------------------------------------
(* attendees_to_company called again with the same attendees and the same  *)
(* configuration and another event_summary and event_description           *)

RerunLists == {NoneList} \cup UNION {[1..k -> AttendeePool] : k \in 0..MaxRerunAttendees}

RerunInit ==
    /\ pc = "collect"
    /\ attendees \in RerunLists
    /\ \E t \in TextPool : event_summary = t[1] /\ event_description = t[2]
    /\ \E c \in Configurations :
          /\ INTERNAL = c.INTERNAL
          /\ IGNORE = c.IGNORE
          /\ PRIORITY = c.PRIORITY
          /\ NAME_MAP = c.NAME_MAP
    /\ domains = <<>>
    /\ external = <<>>
    /\ result = NoResult
    /\ stage = 0
    /\ NormIdle
    /\ EmailsIdle
    /\ RerunIdle
    /\ AppIdle

\* the call has returned: keep what it was given and what it returned, and
\* call again with another text; domains and external are locals of the call
CallAgain ==
    /\ pc = "done"
    /\ first = NoCall
    /\ first' = [summary |-> event_summary, description |-> event_description,
                 result |-> result]
    /\ \E t \in TextPool : event_summary' = t[1] /\ event_description' = t[2]
    /\ domains' = <<>>
    /\ external' = <<>>
    /\ result' = NoResult
    /\ stage' = 0
    /\ pc' = "collect"
    /\ UNCHANGED <<attendees, INTERNAL, IGNORE, PRIORITY, NAME_MAP, normVars, emailVars,
                   appVars>>

RerunNext ==
    \/ CollectDomains
    \/ PriorityStage
    \/ MajorityStage
    \/ FallbackStage
    \/ TextStage
    \/ UnknownStage
    \/ CallAgain

SpecRerun == RerunInit /\ [][RerunNext]_vars

\* the call that returned is the second one
CalledAgain == Returned /\ first # NoCall

\* C11: the stages are ordered and the first that decides returns.  When at
\* least one attendee domain survives the exclusion filter, the call is decided
\* by stage 2 or 3, the returned companyDomain is not empty and is an element
\* of external, and a call with the same attendees and configuration and any
\* other event_summary and event_description returned the same result.
C11_DomainEvidenceIgnoresText ==
    (Returned /\ external # <<>>) =>
        /\ stage \in {2, 3}
        /\ result.companyDomain # <<>>
        /\ result.companyDomain \in ExternalSet
        /\ CalledAgain => result = first.result

\* two calls on the same attendees with a surviving domain; the texts differ,
\* each alone names a company through the text patterns, and the two names
\* differ from each other and from the name returned
C11_Witness ==
    /\ CalledAgain
    /\ external # <<>>
    /\ LET t1 == text_candidate(event_text(first.summary, first.description))
           t2 == text_candidate(EventText)
       IN /\ t1 # NoMatch
          /\ t2 # NoMatch
          /\ t1 # t2
          /\ result.companyName # t1
          /\ result.companyName # t2

---------------------------------------------------------------------------
(* The app (app.py): the summary cache of the session state.  One action   *)
(* is one run of the script, started by one interaction of the user.       *)

\* s.endswith(p)
endswith(s, p) == Len(s) >= Len(p) /\ SubSeq(s, Len(s) - Len(p) + 1, Len(s)) = p

\* os.getenv("EXCLUDED_DOMAIN", "kempfenterprise.com").lower().strip(), unset
EXCLUDED_DOMAIN == strip(lower(<<"k", "e", "m", "p", "f", "e", "n", "t", "e", "r", "p", "r", "i", "s", "e", ".", "c", "o", "m">>))

\* os.getenv("EXCLUSION_MODE", "any").lower().strip(), unset
EXCLUSION_MODE == strip(lower(<<"a", "n", "y">>))

\* collect_event_emails(e), the three loops in one
collect_event_emails(e) ==
    dedupe(attendee_emails(OrEmptyList(e.attendees))
           \o party_email(e.organizer) \o party_email(e.creator))

exclude_event_by_domain(all_emails, excluded_domain, mode) ==
    IF excluded_domain = <<>> \/ all_emails = <<>> THEN FALSE
    ELSE LET suffix == <<"@">> \o excluded_domain
         IN IF mode = <<"a", "l", "l">>
            THEN \A i \in 1..Len(all_emails) : endswith(all_emails[i], suffix)
            ELSE \E i \in 1..Len(all_emails) : endswith(all_emails[i], suffix)

\* a dict attendee with a non-string email makes collect_event_emails and
\* attendees_to_company raise (None.lower is never reached, 5.strip is)
event_raises(e) ==
    \E i \in 1..Len(OrEmptyList(e.attendees)) : email_raises(OrEmptyList(e.attendees)[i])

NoParty == [present |-> FALSE, email |-> None]

\* events as list_events returns them; id is None when the key is missing
AppEventPool == {
    [id |-> <<"e", "1">>, attendees |-> <<[kind |-> "dict", val |-> <<"s", "a", "m", "@", "m", "a", "i", "l", ".", "b", "e", "t", "a", ".", "c", "o", "m">>]>>,
     organizer |-> [present |-> TRUE, email |-> <<"O", "@", "x", ".", "i", "o">>], creator |-> NoParty],
    [id |-> <<"e", "2">>, attendees |-> NoneList,
     organizer |-> NoParty, creator |-> NoParty],
    [id |-> <<"e", "3">>, attendees |-> <<[kind |-> "dict", val |-> <<"m", "e", "@", "k", "e", "m", "p", "f", "e", "n", "t", "e", "r", "p", "r", "i", "s", "e", ".", "c", "o", "m">>]>>,
     organizer |-> NoParty, creator |-> NoParty],
    [id |-> None,  attendees |-> <<[kind |-> "str", val |-> <<"z", "e", "d", "@", "z", "o", "o", "m", ".", "u", "s">>]>>,
     organizer |-> NoParty, creator |-> NoParty],
    [id |-> <<"e", "5">>, attendees |-> <<[kind |-> "dict", val |-> NonString]>>,
     organizer |-> NoParty, creator |-> NoParty] }

EventLists == UNION {[1..k -> AppEventPool] : k \in 0..MaxEvents}

\* the loop that builds rows: an excluded event is skipped; a row keeps
\* e.get("id", "") and the event itself ("_raw")
RECURSIVE build_rows(_)
build_rows(events) ==
    IF events = <<>> THEN <<>>
    ELSE LET e == Head(events)
         IN (IF exclude_event_by_domain(collect_event_emails(e), EXCLUDED_DOMAIN, EXCLUSION_MODE)
             THEN <<>>
             ELSE <<[id |-> OrEmpty(e.id), raw |-> e]>>)
            \o build_rows(Tail(events))

\* what build_event_summary can return for one call, and the text cached when
\* it raises: a brief (of this call, no two calls write the same), "" (no API
\* key or an empty completion), "(Summary error: ...)"
EmptyText == [kind |-> "empty", event |-> None, call |-> 0]

ErrorText == [kind |-> "error", event |-> None, call |-> 0]

Brief(event_id, n) == [kind |-> "brief", event |-> event_id, call |-> n]

SummaryTexts(event_id, n) == {Brief(event_id, n), EmptyText, ErrorText}

\* the script from "Auto-generate summary when the selected row changes" to the
\* AI Summary text area, for the rows rws and the row index i of this run
Script(rws, i) ==
    IF rws = <<>>
    THEN /\ shown' = NotShown
         /\ UNCHANGED <<summaries, current_event_id, generations>>
    ELSE LET selected_row == rws[i + 1]
             event_id == selected_row.id
             changed == event_id # <<>> /\ event_id # current_event_id
             calls == map_get(generations, event_id, 0) + 1
         IN /\ current_event_id' = IF changed THEN event_id ELSE current_event_id
            /\ IF event_raises(selected_row.raw)
               THEN \* attendees_to_company raises and the run ends
                    /\ shown' = NotShown
                    /\ UNCHANGED <<summaries, generations>>
               ELSE /\ IF changed /\ event_id \notin DOMAIN summaries
                       THEN /\ \E summary_text \in SummaryTexts(event_id, calls) :
                                 summaries' = (event_id :> summary_text) @@ summaries
                            /\ generations' = (event_id :> calls) @@ generations
                       ELSE UNCHANGED <<summaries, generations>>
                    /\ shown' = IF current_event_id' # None /\ current_event_id' # <<>>
                                THEN map_get(summaries', current_event_id', EmptyText)
                                ELSE EmptyText

AppInit ==
    /\ pc = "script"
    /\ AppIdle
    /\ CallIdle
    /\ NormIdle
    /\ EmailsIdle
    /\ RerunIdle

\* "Load events" is pressed: the events are listed and the rows rebuilt, or an
\* exception leaves the rows as they were; the number input gives an index of
\* the rows that are drawn, and the script runs on
LoadEvents ==
    /\ pc = "script"
    /\ \E events \in EventLists :
          rows' = IF \E k \in 1..Len(events) : event_raises(events[k])
                  THEN rows
                  ELSE build_rows(events)
    /\ idx' \in 0..(IF rows' = <<>> THEN 0 ELSE Len(rows') - 1)
    /\ Script(rows', idx')
    /\ UNCHANGED <<pc, callVars, normVars, emailVars, rerunVars>>

\* another row index is entered in the number input
SelectRow ==
    /\ pc = "script"
    /\ rows # <<>>
    /\ idx' \in (0..(Len(rows) - 1)) \ {idx}
    /\ Script(rows, idx')
    /\ UNCHANGED <<pc, rows, callVars, normVars, emailVars, rerunVars>>

\* a resource check box, the Slack check box or "Generate POC Document" (which
\* reads the cache and writes nothing to it): the script runs again
OtherInteraction ==
    /\ pc = "script"
    /\ Script(rows, idx)
    /\ UNCHANGED <<pc, rows, idx, callVars, normVars, emailVars, rerunVars>>

AppNext ==
    \/ LoadEvents
    \/ SelectRow
    \/ OtherInteraction

SpecApp == AppInit /\ [][AppNext]_vars

\* C13: with a non-empty row list, once the row-change step has run,
\* current_event_id is the event id of the selected row, the cache holds an
\* entry for it, and that entry is what the AI Summary text area shows; every
\* cached entry was generated by one call and is the text that call returned.
C13_ShownIsCachedForSelectedRow ==
    /\ rows # <<>> =>
          /\ current_event_id = rows[idx + 1].id
          /\ current_event_id \in DOMAIN summaries
          /\ shown = summaries[current_event_id]
    /\ \A k \in DOMAIN summaries :
          /\ generations[k] = 1
          /\ summaries[k] \in SummaryTexts(k, 1)
====
